---- MODULE Spec2Model ----
(***************************************************************************)
(* Peru Regional Telemetry: the forecast pipeline of src/app.py,           *)
(* src/utils.py and src/views.py as a state machine.                       *)
(*                                                                         *)
(*   Spec       the Streamlit session: every user interaction re-runs the  *)
(*              script of app.py against the process-wide fetch cache.     *)
(*   SpecFrame  transform_data and the two renderers applied to every      *)
(*              payload of a bounded set.                                  *)
(***************************************************************************)
EXTENDS Integers, Sequences, FiniteSets, TLC

VARIABLES
    API_KEY,            \* utils.API_KEY: TRUE iff the secret is a non-empty string
    now,                \* wall clock, in hours
    cache,              \* st.cache_data store of fetch_data, keyed by (lat, lon)
    calls,              \* history: one record per fetch_data call
    selected_location,  \* value of the location selectbox
    selected_date,      \* value of the date_input widget
    date_widget,        \* the date_input rendered by the last run (its bounds)
    run,                \* what the last run of the script did up to the fetch
    raw_data,           \* app.py raw_data / the payload handed to transform_data
    df,                 \* frame built by transform_data
    overview,           \* content of the 7-Day Overview tab
    detail              \* content of the 1-Day Detail tab

vars == <<API_KEY, now, cache, calls, selected_location, selected_date,
          date_widget, run, raw_data, df, overview, detail>>

-----------------------------------------------------------------------------
(* Bounds *)

MaxRows == 3        \* hourly records in a payload
MaxCalls == 2       \* fetch_data calls in a behaviour
MaxTime == 27       \* the clock stops here
TickHours == 12     \* the clock advances by this many hours

(* Program constants *)

TTL == 24           \* @st.cache_data(ttl="1d"), in hours
ROLLING_WINDOW == 3 \* rolling(3, ...)
MIN_PERIODS == 1    \* rolling(..., min_periods=1)
HoursPerDay == 24   \* .dt.date: calendar day of a timestamp

-----------------------------------------------------------------------------
(* Values.  A numeric cell is a number or NaN; a mean is a fraction. *)

NaN == [def |-> FALSE, v |-> 0]
Num(x) == [def |-> TRUE, v |-> x]

NaNMean == [def |-> FALSE, num |-> 0, den |-> 1]

\* a timestamp string "YYYY-MM-DD HH:00" of the provider, by its day and hour
TimeStr(d, h) == [def |-> TRUE, day |-> d, hour |-> h]
NoTimeStr == [def |-> FALSE, day |-> 0, hour |-> 0]

NaT == [def |-> FALSE, v |-> 0]

RequiredFields ==
    {"time", "temperature", "felttemperature", "precipitation",
     "convective_precipitation"}

RECURSIVE SumOver(_, _)
SumOver(col, idx) ==
    IF idx = {} THEN 0
    ELSE LET j == CHOOSE k \in idx : TRUE
         IN col[j].v + SumOver(col, idx \ {j})

SetMax(S) == CHOOSE x \in S : \A y \in S : y <= x
SetMin(S) == CHOOSE x \in S : \A y \in S : x <= y

-----------------------------------------------------------------------------
(* utils.transform_data *)

\* pd.DataFrame(data_1h, columns=target_columns): one column of the frame.
\* A key that data_1h does not carry gives a column of missing values.
Column(data_1h, name) ==
    [i \in 1..Len(data_1h.rows) |->
        IF name \in data_1h.fields
        THEN data_1h.rows[i][name]
        ELSE IF name = "time" THEN NoTimeStr ELSE NaN]

\* variant: only the time of day is parsed
to_datetime_TimeOfDay(s) ==
    IF s.def THEN [def |-> TRUE, v |-> s.hour] ELSE NaT

\* pd.to_datetime on one cell
to_datetime(s) ==
    IF s.def THEN [def |-> TRUE, v |-> s.day * HoursPerDay + s.hour] ELSE NaT

\* variant: the window holds one record less
RollingMean_ShortWindow(col, window, min_periods) ==
    [i \in 1..Len(col) |->
        LET lo  == IF i - window + 2 > 1 THEN i - window + 2 ELSE 1
            obs == {j \in lo..i : col[j].def}
        IN IF Cardinality(obs) >= min_periods /\ obs # {}
           THEN [def |-> TRUE, num |-> SumOver(col, obs), den |-> Cardinality(obs)]
           ELSE NaNMean]

\* variant: a missing value anywhere in the window makes the mean missing
RollingMean_Propagate(col, window, min_periods) ==
    [i \in 1..Len(col) |->
        LET lo  == IF i - window + 1 > 1 THEN i - window + 1 ELSE 1
            obs == {j \in lo..i : col[j].def}
        IN IF obs = lo..i
           THEN [def |-> TRUE, num |-> SumOver(col, obs), den |-> Cardinality(obs)]
           ELSE NaNMean]

\* Series.rolling(window, min_periods).mean()
RollingMean(col, window, min_periods) ==
    [i \in 1..Len(col) |->
        LET lo  == IF i - window + 1 > 1 THEN i - window + 1 ELSE 1
            obs == {j \in lo..i : col[j].def}
        IN IF Cardinality(obs) >= min_periods /\ obs # {}
           THEN [def |-> TRUE, num |-> SumOver(col, obs), den |-> Cardinality(obs)]
           ELSE NaNMean]

Raised(exc) == [status |-> exc, rows |-> <<>>]
NotBuilt == [status |-> "none", rows |-> <<>>]

transform_data(data) ==
    IF ~data.has_hourly THEN Raised("KeyError")
    ELSE
      LET data_1h == data.data_1h
          time    == [i \in 1..Len(data_1h.rows) |->
                         to_datetime(Column(data_1h, "time")[i])]
          temp    == Column(data_1h, "temperature")
          felt    == Column(data_1h, "felttemperature")
          prec    == Column(data_1h, "precipitation")
          conv    == Column(data_1h, "convective_precipitation")
          stemp   == RollingMean(temp, ROLLING_WINDOW, MIN_PERIODS)
          sfelt   == RollingMean(felt, ROLLING_WINDOW, MIN_PERIODS)
      IN [status |-> "ok",
          rows |-> [i \in 1..Len(data_1h.rows) |->
                     [time |-> time[i],
                      temperature |-> temp[i],
                      felttemperature |-> felt[i],
                      precipitation |-> prec[i],
                      convective_precipitation |-> conv[i],
                      smooth_temperature |-> stemp[i],
                      smooth_felttemperature |-> sfelt[i]]]]

-----------------------------------------------------------------------------
(* utils.display_metrics, utils.plot_data and the renderers of views.py *)

Defined(rows, column_name) ==
    {rows[i][column_name].v : i \in {j \in 1..Len(rows) : rows[j][column_name].def}}

\* Series.max() / Series.min(): missing values are skipped; NaN when none is left
SeriesMax(rows, column_name) ==
    IF Defined(rows, column_name) = {} THEN NaN
    ELSE Num(SetMax(Defined(rows, column_name)))

SeriesMin(rows, column_name) ==
    IF Defined(rows, column_name) = {} THEN NaN
    ELSE Num(SetMin(Defined(rows, column_name)))

\* the pair of st.metric values display_metrics shows for one column
display_metrics(rows, column_name) ==
    [column |-> column_name,
     max_val |-> SeriesMax(rows, column_name),
     min_val |-> SeriesMin(rows, column_name)]

\* the figure plot_data returns: a bar chart draws the first y column only
plot_data(rows, y_cols, graph_type, date_format) ==
    [graph_type |-> graph_type,
     series |-> IF graph_type = "line" THEN y_cols ELSE <<y_cols[1]>>,
     date_format |-> date_format,
     points |-> Len(rows)]

NotRendered == [notice |-> "none", metrics |-> <<>>, charts |-> <<>>]
Notice(msg) == [notice |-> msg, metrics |-> <<>>, charts |-> <<>>]

\* variant: no df.empty check
RenderSections_NoEmptyCheck(rows, date_format) ==
    [notice |-> "charts",
     metrics |-> <<display_metrics(rows, "temperature"),
                   display_metrics(rows, "precipitation"),
                   display_metrics(rows, "convective_precipitation")>>,
     charts |-> <<>>]

\* the three sections common to render_overview_content and render_detail_content
RenderSections(rows, date_format) ==
    IF Len(rows) = 0 THEN Notice("MSG_NO_DATA")
    ELSE [notice |-> "charts",
          metrics |-> <<display_metrics(rows, "temperature"),
                        display_metrics(rows, "precipitation"),
                        display_metrics(rows, "convective_precipitation")>>,
          charts |-> <<plot_data(rows, <<"temperature", "felttemperature">>,
                                 "line", date_format),
                       plot_data(rows, <<"precipitation">>, "bar", date_format),
                       plot_data(rows, <<"convective_precipitation">>, "bar",
                                 date_format)>>]

render_overview_content(rows) == RenderSections(rows, "DATE_FMT_OVERVIEW")

render_detail_content(rows) == RenderSections(rows, "DATE_FMT_DETAIL")

\* df['time'].dt.date of one record
DateOf(t) == t.v \div HoursPerDay

FrameDates(rows) == {DateOf(rows[i].time) : i \in {j \in 1..Len(rows) : rows[j].time.def}}

\* df[df['time'].dt.date == selected_date]
FilterDay(rows, d) ==
    LET OnDay(r) == r.time.def /\ DateOf(r.time) = d
    IN SelectSeq(rows, OnDay)

\* the dates st.sidebar.date_input offers: min_date..max_date of the frame
SelectableDates(rows) ==
    IF FrameDates(rows) = {} THEN {}
    ELSE SetMin(FrameDates(rows))..SetMax(FrameDates(rows))

-----------------------------------------------------------------------------
(* Payloads of the provider *)

\* a decoded JSON body: data_1h holds the keys it carries and its hourly records
Payload(hourly, fields, rows) ==
    [json |-> "object", has_error |-> FALSE, has_hourly |-> hourly,
     data_1h |-> [fields |-> fields, rows |-> rows]]

\* a JSON object that carries "error_message"
ErrorBody ==
    [json |-> "object", has_error |-> TRUE, has_hourly |-> FALSE,
     data_1h |-> [fields |-> {}, rows |-> <<>>]]

\* a body that is not JSON, and a JSON number, boolean or null
InvalidBody == [ErrorBody EXCEPT !.json = "invalid", !.has_error = FALSE]
ScalarBody == [ErrorBody EXCEPT !.json = "scalar", !.has_error = FALSE]

HourlyRecord(t, temp, felt, prec, conv) ==
    [time |-> t, temperature |-> temp, felttemperature |-> felt,
     precipitation |-> prec, convective_precipitation |-> conv]

Temps == {Num(1), Num(4), NaN}
Felts == {Num(2), Num(5), NaN}

\* consecutive hours across midnight
HourlyTimes(n) == [i \in 1..n |-> TimeStr((21 + i) \div 24, (21 + i) % 24)]

\* the time columns of n records: consecutive hours across midnight, the same
\* in reverse order, and records on two days with a day without records between
TimeColumns(n) ==
    { HourlyTimes(n),
      [i \in 1..n |-> TimeStr((22 + n - i) \div 24, (22 + n - i) % 24)],
      [i \in 1..n |-> TimeStr(IF i = 1 THEN 0 ELSE 2, i)] }

\* which keys data_1h carries: all five, or all but one
FieldSets == {RequiredFields} \cup {RequiredFields \ {f} : f \in RequiredFields}

\* the payload with time column tc and (temperature, felt temperature) pairs tf
FramePayload(fs, tc, tf) ==
    Payload(TRUE, fs,
            [i \in 1..Len(tc) |->
                HourlyRecord(tc[i], tf[i][1], tf[i][2], Num(3), Num(0))])

-----------------------------------------------------------------------------
(* The location catalog: data.data and utils.get_city_mapping *)

\* coordinates in hundredths of a degree
data ==
    << [name |-> "Cajamarca",
        cities |-> << [name |-> "Cajamarca",
                       location |-> [lat |-> -716, lon |-> -7852]] >>],
       [name |-> "Apurimac",
        cities |-> << [name |-> "Abancay",
                       location |-> [lat |-> -1363, lon |-> -7288]] >>] >>

\* the display name "<city> (<province>)"
DisplayName(city, province) == <<city, province>>

city_options ==
    {DisplayName(data[p].cities[c].name, data[p].name) :
        p \in 1..Len(data), c \in {1}}

city_lookup ==
    [label \in city_options |->
        LET p == CHOOSE q \in 1..Len(data) :
                    label = DisplayName(data[q].cities[1].name, data[q].name)
        IN data[p].cities[1].location]

NoLocation == <<"", "">>

\* the (lat, lon) pairs fetch_data is called with
Locations == {city_lookup[label] : label \in city_options}

-----------------------------------------------------------------------------
(* utils.fetch_data *)

\* the value None; its body field is a filler that nothing reads
NoneValue == [is_none |-> TRUE, body |-> [ErrorBody EXCEPT !.json = "none", !.has_error = FALSE]]
Returned(body) == [is_none |-> FALSE, body |-> body]

\* what requests.get(...) and raise_for_status() can meet
StatusCodes == {200, 403, 404, 429, 500, 503}

\* the bodies the provider sends with a success status
SampleBodies ==
    { Payload(TRUE, RequiredFields,
              << HourlyRecord(TimeStr(0, 23), Num(1), Num(2), Num(3), Num(0)),
                 HourlyRecord(TimeStr(2, 0), Num(4), Num(5), Num(3), Num(0)) >>),
      Payload(TRUE, RequiredFields,
              << HourlyRecord(TimeStr(0, 22), Num(4), NaN, Num(3), Num(0)) >>),
      Payload(FALSE, {}, <<>>),
      ErrorBody, InvalidBody, ScalarBody }

Responses ==
    { [transport |-> t, status |-> 0, body |-> InvalidBody] :
        t \in {"ConnectionError", "RequestException"} }
    \cup { [transport |-> "ok", status |-> s, body |-> InvalidBody] :
            s \in StatusCodes \ {200} }
    \cup { [transport |-> "ok", status |-> 200, body |-> b] : b \in SampleBodies }

\* Response.raise_for_status(): 4xx and 5xx raise HTTPError
IsHTTPError(status_code) == status_code >= 400 /\ status_code < 600

\* variant: 500 itself is not taken for a server error
HTTPErrorMessage_Above500(status_code) ==
    IF status_code = 403 THEN "Authorization Error"
    ELSE IF status_code = 429 THEN "Quota Exceeded"
    ELSE IF status_code > 500 THEN "Server Error"
    ELSE "API Error"

\* the st.error message chosen in the HTTPError handler
HTTPErrorMessage(status_code) ==
    IF status_code = 403 THEN "Authorization Error"
    ELSE IF status_code = 429 THEN "Quota Exceeded"
    ELSE IF status_code >= 500 THEN "Server Error"
    ELSE "API Error"

Failure(message, requested, status_code) ==
    [message |-> message, requested |-> requested, status |-> status_code,
     raised |-> FALSE, result |-> NoneValue]

\* utils.py lines 54-109: the GET and the handling of its outcome
Request(location, response) ==
    IF response.transport = "ConnectionError"
    THEN Failure("Connection Error", TRUE, 0)
    ELSE IF response.transport = "RequestException"
    THEN Failure("Request Error", TRUE, 0)
    ELSE IF IsHTTPError(response.status)
    THEN Failure(HTTPErrorMessage(response.status), TRUE, response.status)
    ELSE IF response.body.json = "invalid"
    THEN Failure("Data Error", TRUE, response.status)
    ELSE IF response.body.json = "scalar"
    THEN \* "error_message" in data: TypeError, caught by no handler
         [message |-> "TypeError", requested |-> TRUE, status |-> response.status,
          raised |-> TRUE, result |-> NoneValue]
    ELSE IF response.body.has_error
    THEN Failure("API Message", TRUE, response.status)
    ELSE [message |-> "none", requested |-> TRUE, status |-> response.status,
          raised |-> FALSE, result |-> Returned(response.body)]

\* variant: the request is made without looking at the key
FetchBody_NoKeyCheck(location, response) == Request(location, response)

\* the body of fetch_data: one GET for (lat, lon) unless the key is missing
FetchBody(location, response) ==
    IF ~API_KEY
    THEN Failure("System Error: API Key is missing.", FALSE, 0)
    ELSE Request(location, response)

\* the failures fetch_data reports with st.error before it returns None
FailureMessages ==
    {"System Error: API Key is missing.", "Authorization Error", "Quota Exceeded",
     "Server Error", "API Error", "Connection Error", "Request Error",
     "Data Error", "API Message"}

NoEntry == [present |-> FALSE, stored |-> 0, message |-> "none", value |-> NoneValue]

\* variant: an entry never expires
CacheValid_NoExpiry(entry, t) == entry.present

\* variant: no entry is ever served
CacheValid_Never(entry, t) == FALSE

\* @st.cache_data(ttl="1d"): an entry is served until ttl has passed
CacheValid(entry, t) == entry.present /\ t < entry.stored + TTL

\* one call of the cached fetch_data: a valid entry is returned (with the
\* st.error it recorded) without running the body
fetch_data(location, response) ==
    IF CacheValid(cache[location], now)
    THEN [hit |-> TRUE, message |-> cache[location].message, requested |-> FALSE,
          status |-> 0, raised |-> FALSE, result |-> cache[location].value]
    ELSE LET f == FetchBody(location, response)
         IN [hit |-> FALSE, message |-> f.message, requested |-> f.requested,
             status |-> f.status, raised |-> f.raised, result |-> f.result]

\* variant: only a payload is kept, a None result is not stored
CacheAfter_PayloadOnly(location, f) ==
    IF ~f.hit /\ ~f.raised /\ ~f.result.is_none
    THEN [cache EXCEPT ![location] =
            [present |-> TRUE, stored |-> now, message |-> f.message,
             value |-> f.result]]
    ELSE cache

\* the store after the call: a result that was returned is kept, None included
CacheAfter(location, f) ==
    IF ~f.hit /\ ~f.raised
    THEN [cache EXCEPT ![location] =
            [present |-> TRUE, stored |-> now, message |-> f.message,
             value |-> f.result]]
    ELSE cache

CallRecord(location, f) ==
    [location |-> location, at |-> now, hit |-> f.hit, requested |-> f.requested,
     raised |-> f.raised, result |-> f.result]

-----------------------------------------------------------------------------
(* app.py: one run of the script *)

NoRun ==
    [event |-> "none", fetched |-> FALSE, hit |-> FALSE, requests |-> 0,
     status |-> 0, message |-> "none", raised |-> FALSE, stopped |-> FALSE,
     transform_calls |-> 0]

Page(raw, frame, ov, det, widget, date, builds, stopped) ==
    [raw_data |-> raw, df |-> frame, overview |-> ov, detail |-> det,
     date_widget |-> widget, selected_date |-> date, transform_calls |-> builds,
     stopped |-> stopped]

\* app.py lines 57-87: the frame and the two data tabs
BuildAndRender(raw, date) ==
    LET frame == transform_data(raw.body)
        dates == SelectableDates(frame.rows)
        d     == IF date_widget = dates /\ date \subseteq dates THEN date ELSE {}
    IN IF frame.status # "ok"
       THEN Page(raw, frame, NotRendered, NotRendered, {}, {}, 1, FALSE)
       ELSE IF dates = {}
       THEN Page(raw, frame, render_overview_content(frame.rows),
                 Notice("error"), {}, {}, 1, FALSE)
       ELSE IF d = {}
       THEN Page(raw, frame, render_overview_content(frame.rows),
                 Notice("MSG_SELECT_DATE"), dates, {}, 1, FALSE)
       ELSE Page(raw, frame, render_overview_content(frame.rows),
                 render_detail_content(
                     FilterDay(frame.rows, CHOOSE x \in d : TRUE)),
                 dates, d, 1, FALSE)

\* variant: raw_data is not checked for None
AfterFetch_NoStop(f, date) ==
    IF f.raised
    THEN Page(NoneValue, NotBuilt, NotRendered, NotRendered, {}, {}, 0, FALSE)
    ELSE IF f.result.is_none
    THEN Page(f.result, Raised("TypeError"), NotRendered, NotRendered, {}, {},
              1, FALSE)
    ELSE BuildAndRender(f.result, date)

\* app.py lines 52-87: what the run does with the outcome f of fetch_data
AfterFetch(f, date) ==
    IF f.raised
    THEN Page(NoneValue, NotBuilt, NotRendered, NotRendered, {}, {}, 0, FALSE)
    ELSE IF f.result.is_none
    THEN Page(f.result, NotBuilt, NotRendered, NotRendered, {}, {}, 0, TRUE)
    ELSE BuildAndRender(f.result, date)

\* the run with no location selected: MSG_SELECT_LOCATION, no fetch
RunWithoutLocation(event) ==
    /\ run' = [NoRun EXCEPT !.event = event]
    /\ raw_data' = NoneValue
    /\ df' = NotBuilt
    /\ overview' = NotRendered
    /\ detail' = NotRendered
    /\ date_widget' = {}
    /\ selected_date' = {}
    /\ UNCHANGED <<cache, calls>>

\* the run with a location selected, the provider answering with response
RunWithLocation(event, label, date, response) ==
    LET location == city_lookup[label]
        f        == fetch_data(location, response)
        page     == AfterFetch(f, date)
    IN /\ cache' = CacheAfter(location, f)
       /\ calls' = Append(calls, CallRecord(location, f))
       /\ run' = [event |-> event, fetched |-> TRUE, hit |-> f.hit,
                  requests |-> IF f.requested THEN 1 ELSE 0,
                  status |-> f.status, message |-> f.message,
                  raised |-> f.raised, stopped |-> page.stopped,
                  transform_calls |-> page.transform_calls]
       /\ raw_data' = page.raw_data
       /\ df' = page.df
       /\ overview' = page.overview
       /\ detail' = page.detail
       /\ date_widget' = page.date_widget
       /\ selected_date' = page.selected_date

Script(event, label, date) ==
    IF label = NoLocation
    THEN RunWithoutLocation(event)
    ELSE /\ Len(calls) < MaxCalls
         /\ IF CacheValid(cache[city_lookup[label]], now)
            THEN RunWithLocation(event, label, date,
                                 CHOOSE r \in Responses : TRUE)
            ELSE \E response \in Responses :
                    RunWithLocation(event, label, date, response)

-----------------------------------------------------------------------------
(* Spec: the session *)

Init ==
    /\ API_KEY \in BOOLEAN
    /\ now = 0
    /\ cache = [location \in Locations |-> NoEntry]
    /\ calls = <<>>
    /\ selected_location = NoLocation
    /\ selected_date = {}
    /\ date_widget = {}
    /\ run = NoRun
    /\ raw_data = NoneValue
    /\ df = NotBuilt
    /\ overview = NotRendered
    /\ detail = NotRendered

\* the user picks another entry of the location selectbox, or clears it
SelectLocation ==
    \E label \in city_options \cup {NoLocation} :
        /\ label # selected_location
        /\ selected_location' = label
        /\ Script("location", label, selected_date)
        /\ UNCHANGED <<API_KEY, now>>

\* the user picks a day in the date_input of the last run, or clears it
SelectDate ==
    /\ date_widget # {}
    /\ \E date \in {{}} \cup {{d} : d \in date_widget} :
          /\ date # selected_date
          /\ Script("date", selected_location, date)
    /\ UNCHANGED <<API_KEY, now, selected_location>>

Tick ==
    /\ now + TickHours <= MaxTime
    /\ now' = now + TickHours
    /\ UNCHANGED <<API_KEY, cache, calls, selected_location, selected_date,
                   date_widget, run, raw_data, df, overview, detail>>

Next == SelectLocation \/ SelectDate \/ Tick

Spec == Init /\ [][Next]_vars

-----------------------------------------------------------------------------
(* SpecFrame: transform_data, then the renderers, on every payload *)

InitFrame ==
    /\ API_KEY = TRUE
    /\ now = 0
    /\ cache = [location \in Locations |-> NoEntry]
    /\ calls = <<>>
    /\ selected_location = NoLocation
    /\ selected_date = {}
    /\ date_widget = {}
    /\ run = NoRun
    /\ \/ raw_data = Payload(FALSE, {}, <<>>)
       \/ \E n \in 0..MaxRows :
            \E fs \in FieldSets, tc \in TimeColumns(n),
               tf \in [1..n -> Temps \X Felts] :
                 \* a key data_1h does not carry has no values to vary
                 /\ "time" \notin fs => tc = HourlyTimes(n)
                 /\ "temperature" \notin fs => \A i \in 1..n : tf[i][1] = NaN
                 /\ "felttemperature" \notin fs => \A i \in 1..n : tf[i][2] = NaN
                 /\ raw_data = FramePayload(fs, tc, tf)
    /\ df = NotBuilt
    /\ overview = NotRendered
    /\ detail = NotRendered

BuildFrame ==
    /\ df.status = "none"
    /\ df' = transform_data(raw_data)
    /\ UNCHANGED <<API_KEY, now, cache, calls, selected_location, selected_date,
                   date_widget, run, raw_data, overview, detail>>

RenderOverview ==
    /\ df.status = "ok"
    /\ overview.notice = "none"
    /\ overview' = render_overview_content(df.rows)
    /\ UNCHANGED <<API_KEY, now, cache, calls, selected_location, selected_date,
                   date_widget, run, raw_data, df, detail>>

RenderDetail ==
    /\ df.status = "ok"
    /\ overview.notice # "none"
    /\ detail.notice = "none"
    /\ \E d \in SelectableDates(df.rows) :
          /\ selected_date' = {d}
          /\ detail' = render_detail_content(FilterDay(df.rows, d))
    /\ UNCHANGED <<API_KEY, now, cache, calls, selected_location,
                   date_widget, run, raw_data, df, overview>>

NextFrame == BuildFrame \/ RenderOverview \/ RenderDetail

SpecFrame == InitFrame /\ [][NextFrame]_vars

-----------------------------------------------------------------------------
(* Properties of the frame builder and the renderers (SpecFrame) *)

FrameBuilt == df.status = "ok"

\* the trailing window of record i
WindowOf(i) == {j \in 1..i : j >= i - 2}

AllDefined(column_name) ==
    \A i \in 1..Len(df.rows) : df.rows[i][column_name].def

\* m is the fraction total / count
MeanIs(m, total, count) == m.def /\ m.num * count = total * m.den

\* the claimed smoothing of source column src into column smooth
TrailingMeanOf(src, smooth) ==
    \A i \in 1..Len(df.rows) :
        LET t(j) == df.rows[j][src].v
            m    == df.rows[i][smooth]
        IN CASE i = 1 -> MeanIs(m, t(1), 1)
             [] i = 2 -> MeanIs(m, t(1) + t(2), 2)
             [] OTHER -> MeanIs(m, t(i - 2) + t(i - 1) + t(i), 3)

\* C5: a payload without the hourly-series key or without one of the five
\* required fields makes transform_data fail and return no frame.
C5_MissingFieldIsSchemaError ==
    (df.status # "none"
        /\ (~raw_data.has_hourly \/ raw_data.data_1h.fields # RequiredFields))
    => (df.status # "ok" /\ df.rows = <<>>)

\* C6: when all temperature values are defined, smooth_temperature[i] is the
\* mean of temperature over the trailing window of at most three records (one
\* record at i = 0, two at i = 1, three from i = 2 on); likewise for the felt
\* temperature.
C6_SmoothIsTrailingMean ==
    FrameBuilt =>
        /\ AllDefined("temperature")
              => TrailingMeanOf("temperature", "smooth_temperature")
        /\ AllDefined("felttemperature")
              => TrailingMeanOf("felttemperature", "smooth_felttemperature")

C6_Witness ==
    /\ FrameBuilt
    /\ Len(df.rows) >= 3
    /\ AllDefined("temperature") /\ AllDefined("felttemperature")
    /\ df.rows[1].temperature.v # df.rows[2].temperature.v
    /\ df.rows[2].temperature.v # df.rows[3].temperature.v
    /\ df.rows[1].felttemperature.v # df.rows[3].felttemperature.v

\* C7 as stated: a missing source value anywhere in the trailing window of
\* record i makes the smoothed value at i missing.
C7_UndefinedPropagates ==
    FrameBuilt =>
        \A i \in 1..Len(df.rows) :
            /\ (\E j \in WindowOf(i) : ~df.rows[j].temperature.def)
                  => ~df.rows[i].smooth_temperature.def
            /\ (\E j \in WindowOf(i) : ~df.rows[j].felttemperature.def)
                  => ~df.rows[i].smooth_felttemperature.def

RECURSIVE DefinedSum(_, _, _)
DefinedSum(src, lo, hi) ==
    IF lo > hi THEN 0
    ELSE (IF df.rows[hi][src].def THEN df.rows[hi][src].v ELSE 0)
            + DefinedSum(src, lo, hi - 1)

SkipsUndefined(src, smooth) ==
    \A i \in 1..Len(df.rows) :
        LET lo   == IF i > 2 THEN i - 2 ELSE 1
            seen == {j \in lo..i : df.rows[j][src].def}
            m    == df.rows[i][smooth]
        IN /\ m.def <=> seen # {}
           /\ seen # {} => MeanIs(m, DefinedSum(src, lo, i), Cardinality(seen))

\* C7 amended: the smoothed value at i is the mean of the defined source values
\* in the trailing window of record i; it is missing only when every source
\* value in that window is missing.
C7_SmoothSkipsUndefined ==
    FrameBuilt =>
        /\ SkipsUndefined("temperature", "smooth_temperature")
        /\ SkipsUndefined("felttemperature", "smooth_felttemperature")

C7_Witness ==
    /\ FrameBuilt
    /\ Len(df.rows) >= 3
    /\ df.rows[1].temperature.def
    /\ ~df.rows[2].temperature.def
    /\ df.rows[3].temperature.def
    /\ df.rows[3].smooth_temperature.def
    /\ ~df.rows[2].felttemperature.def
    /\ df.rows[2].smooth_felttemperature.def

\* C8 as stated: the time column of every frame is non-decreasing.
C8_TimeNonDecreasing ==
    FrameBuilt =>
        \A i, j \in 1..Len(df.rows) :
            (i < j /\ df.rows[i].time.def /\ df.rows[j].time.def)
                => df.rows[i].time.v <= df.rows[j].time.v

\* payload records i and j are in chronological order
Chronological(a, b) == a.day < b.day \/ (a.day = b.day /\ a.hour <= b.hour)

PayloadTimes == [i \in 1..Len(raw_data.data_1h.rows) |-> raw_data.data_1h.rows[i].time]

\* C8 amended: transform_data keeps the records in the payload's order without
\* sorting them, so the time column of the frame is non-decreasing exactly
\* when the payload's hourly records are in chronological order.
C8_TimeKeepsPayloadOrder ==
    (FrameBuilt /\ "time" \in raw_data.data_1h.fields) =>
        /\ Len(df.rows) = Len(PayloadTimes)
        /\ \A i, j \in 1..Len(df.rows) :
              /\ df.rows[i].time.def
              /\ (df.rows[i].time.v <= df.rows[j].time.v)
                    <=> Chronological(PayloadTimes[i], PayloadTimes[j])

C8_Witness ==
    /\ FrameBuilt
    /\ "time" \in raw_data.data_1h.fields
    /\ Len(df.rows) >= 3
    /\ df.rows[1].time.v > df.rows[2].time.v
    /\ df.rows[2].time.v > df.rows[3].time.v

\* the records a rendered view was given
OverviewRows == df.rows
DetailRows ==
    IF selected_date = {} THEN <<>>
    ELSE FilterDay(df.rows, CHOOSE d \in selected_date : TRUE)

MetricsSound(view, rows) ==
    \A k \in 1..Len(view.metrics) :
        LET m == view.metrics[k]
        IN /\ m.max_val.def /\ m.min_val.def
           /\ m.max_val.v >= m.min_val.v
           /\ m.max_val.v \in Defined(rows, m.column)
           /\ m.min_val.v \in Defined(rows, m.column)

EmptySignalled(view, rows) ==
    (view.notice # "none" /\ Len(rows) = 0)
        => (view.notice = "MSG_NO_DATA" /\ view.metrics = <<>>)

\* C9 as stated: on a frame with zero records the summary signals the empty
\* frame and yields no max/min; on every non-empty frame it yields max >= min,
\* both of them values present in the column.
C9_SummaryMaxMin ==
    /\ EmptySignalled(overview, OverviewRows)
    /\ EmptySignalled(detail, DetailRows)
    /\ (overview.notice # "none" /\ Len(OverviewRows) > 0)
          => (Len(overview.metrics) = 3 /\ MetricsSound(overview, OverviewRows))
    /\ (detail.notice # "none" /\ Len(DetailRows) > 0)
          => (Len(detail.metrics) = 3 /\ MetricsSound(detail, DetailRows))

MetricsSoundOrMissing(view, rows) ==
    \A k \in 1..Len(view.metrics) :
        LET m == view.metrics[k]
        IN IF Defined(rows, m.column) = {}
           THEN ~m.max_val.def /\ ~m.min_val.def
           ELSE /\ m.max_val.def /\ m.min_val.def
                /\ m.max_val.v >= m.min_val.v
                /\ m.max_val.v \in Defined(rows, m.column)
                /\ m.min_val.v \in Defined(rows, m.column)

\* C9 amended: a renderer given a frame with zero records shows the no-data
\* notice and never calls display_metrics; on a non-empty frame display_metrics
\* yields max >= min, both present in the column, when the column holds at
\* least one defined value, and a missing max and min when it holds none.
C9_SummaryMaxMinOrMissing ==
    /\ EmptySignalled(overview, OverviewRows)
    /\ EmptySignalled(detail, DetailRows)
    /\ (overview.notice # "none" /\ Len(OverviewRows) > 0)
          => (Len(overview.metrics) = 3
                /\ MetricsSoundOrMissing(overview, OverviewRows))
    /\ (detail.notice # "none" /\ Len(DetailRows) > 0)
          => (Len(detail.metrics) = 3
                /\ MetricsSoundOrMissing(detail, DetailRows))

C9_Witness ==
    /\ FrameBuilt
    /\ overview.notice = "charts"
    /\ overview.metrics[1].max_val.def
    /\ overview.metrics[1].max_val.v > overview.metrics[1].min_val.v
    /\ \E i \in 1..Len(df.rows) : ~df.rows[i].temperature.def
    /\ detail.notice = "MSG_NO_DATA"
    /\ Len(DetailRows) = 0

-----------------------------------------------------------------------------
(* Properties of the session (Spec) *)

\* call i ran the body of fetch_data and returned: its result was stored
Stored(i) == ~calls[i].hit /\ ~calls[i].raised

\* call j comes within the validity window of the result stored by call i
InWindow(i, j) ==
    /\ i < j
    /\ calls[i].location = calls[j].location
    /\ Stored(i)
    /\ calls[j].at < calls[i].at + TTL

\* call j follows a stored result for its location, and no window covers it
AfterExpiry(j) ==
    /\ \E i \in 1..(j - 1) :
          calls[i].location = calls[j].location /\ Stored(i)
    /\ ~\E i \in 1..(j - 1) : InWindow(i, j)

\* C1 as stated: two calls with the same (lat, lon) within the validity window
\* return the identical payload and issue exactly one network request in
\* total; a call after the entry has expired issues a new request.
C1_ExactlyOneRequestPerWindow ==
    /\ \A i, j \in 1..Len(calls) :
          InWindow(i, j) =>
              /\ calls[j].result = calls[i].result
              /\ calls[i].requested /\ ~calls[j].requested
    /\ \A j \in 1..Len(calls) : AfterExpiry(j) => calls[j].requested

\* C1 amended: after a call that returned (a payload or None), every call with
\* the same (lat, lon) within the 24-hour window returns the identical result
\* without a network request, so the two calls issue at most one request in
\* total: exactly one when the API key is present, none when it is missing; a
\* call after the entry has expired issues a new request when the key is
\* present.
C1_AtMostOneRequestPerWindow ==
    /\ \A i, j \in 1..Len(calls) :
          InWindow(i, j) =>
              /\ calls[j].result = calls[i].result
              /\ ~calls[j].raised
              /\ ~calls[j].requested
              /\ calls[i].requested <=> API_KEY
    /\ \A j \in 1..Len(calls) :
          AfterExpiry(j) => (calls[j].requested <=> API_KEY)

C1_Witness ==
    /\ Len(calls) >= 2
    /\ InWindow(1, 2)
    /\ calls[1].requested
    /\ ~calls[1].result.is_none
    /\ calls[2].at > calls[1].at
    /\ calls[2].result = calls[1].result

\* the last run met a failure of fetch_data, fresh or replayed from the cache
FailureOutcome == run.fetched /\ run.message \in FailureMessages

\* C2: on every failure outcome fetch_data returns None and the run neither
\* calls transform_data nor renders the overview or the detail tab.
C2_FailureHaltsPipeline ==
    FailureOutcome =>
        /\ raw_data.is_none
        /\ run.stopped
        /\ run.transform_calls = 0
        /\ df = NotBuilt
        /\ overview = NotRendered
        /\ detail = NotRendered

C2_Witness ==
    /\ run.fetched /\ ~run.hit
    /\ run.status = 429
    /\ run.message = "Quota Exceeded"
    /\ run.stopped
    /\ \E i \in 1..Len(calls) : ~calls[i].result.is_none

\* C3: an HTTP error status is classified into exactly one kind: 403 the
\* authorization error, 429 the quota error, 500 and above the server error,
\* every other error status the generic API error.
C3_StatusClassification ==
    (run.fetched /\ run.status >= 400) =>
        /\ run.message \in {"Authorization Error", "Quota Exceeded",
                            "Server Error", "API Error"}
        /\ (run.message = "Authorization Error") <=> (run.status = 403)
        /\ (run.message = "Quota Exceeded") <=> (run.status = 429)
        /\ (run.message = "Server Error") <=> (run.status >= 500)
        /\ (run.message = "API Error")
              <=> (run.status # 403 /\ run.status # 429 /\ run.status < 500)

C3_Witness ==
    /\ run.fetched
    /\ run.status = 500
    /\ run.message = "Server Error"

\* C4: with the API key missing, fetch_data reports the configuration
\* failure and returns None, and no request to the provider is ever made.
C4_NoRequestWithoutKey ==
    ~API_KEY =>
        /\ \A i \in 1..Len(calls) :
              /\ ~calls[i].requested
              /\ ~calls[i].raised
              /\ calls[i].result.is_none
        /\ run.fetched =>
              /\ run.message = "System Error: API Key is missing."
              /\ run.requests = 0

C4_Witness ==
    /\ ~API_KEY
    /\ Len(calls) >= 2
    /\ run.fetched /\ ~run.hit
    /\ run.stopped

\* C10 as stated: a run makes at most one fetch and one frame build, and a
\* date selection with the location unchanged makes no network request.
C10_DateSelectionNeverRequests ==
    /\ run.requests <= 1
    /\ run.transform_calls <= 1
    /\ run.event = "date" => run.requests = 0

\* C10 amended: every interaction re-runs the script and causes at most one
\* network call and one frame build; a date selection with the location
\* unchanged calls fetch_data again and makes a network request exactly when
\* the cached entry of the location has expired; when the entry is still
\* valid it makes none, and the frame is built again by transform_data from
\* the cached payload before the detail view is rendered.
C10_DateSelectionRequestsOnlyAfterExpiry ==
    /\ run.requests <= 1
    /\ run.transform_calls <= 1
    /\ run.event = "date" =>
          /\ run.fetched
          /\ calls[Len(calls)].location = city_lookup[selected_location]
          /\ (run.requests = 1)
                <=> ~\E i \in 1..(Len(calls) - 1) : InWindow(i, Len(calls))
          /\ run.hit =>
                /\ run.transform_calls = 1
                /\ raw_data = calls[Len(calls) - 1].result

C10_Witness ==
    /\ run.event = "date"
    /\ run.hit
    /\ run.requests = 0
    /\ run.transform_calls = 1
    /\ detail.notice = "charts"
    /\ calls[Len(calls)].at > calls[1].at

\* call i ended in a failure: it ran the body and returned None
FailedCall(i) == Stored(i) /\ calls[i].result.is_none

\* C11: a failure is memoized like a success.  After a call that ended in a
\* failure, every later call with the same (lat, lon) within the 24-hour
\* window is served from the cache: it makes no network request and returns
\* None again, so the run that made it stops before the frame builder.
C11_FailureIsMemoized ==
    /\ \A i, j \in 1..Len(calls) :
          (FailedCall(i) /\ InWindow(i, j)) =>
              /\ calls[j].hit
              /\ ~calls[j].requested
              /\ calls[j].result.is_none
    /\ (run.fetched /\ Len(calls) >= 2
          /\ \E i \in 1..(Len(calls) - 1) :
                FailedCall(i) /\ InWindow(i, Len(calls))) =>
          /\ run.requests = 0
          /\ run.message \in FailureMessages
          /\ run.stopped
          /\ df = NotBuilt

C11_Witness ==
    /\ API_KEY
    /\ Len(calls) = 2
    /\ FailedCall(1) /\ calls[1].requested
    /\ InWindow(1, 2)
    /\ calls[2].at > calls[1].at
    /\ calls[2].hit /\ calls[2].result.is_none
    /\ run.message = "Server Error"
    /\ run.stopped

====
